---- MODULE Spec2Model ----
(***************************************************************************)
(* Model of the Streamlit sales dashboard (app.py and app_updated.py).     *)
(*                                                                         *)
(* One script run is a walk through the sections of the script: load the   *)
(* dataset (through st.cache_data), render the header, apply the sidebar   *)
(* filters, render the metrics and the charts, offer the CSV download.     *)
(* A widget interaction reruns the script from the top; the cache of       *)
(* load_data survives reruns.                                              *)
(*                                                                         *)
(* Numbers are integers (prices in whole units); floating point rounding   *)
(* is not modelled.  A Timestamp is the integer year*10000+month*100+day,  *)
(* which orders as the calendar does.  The text of a date cell is a        *)
(* record [sep, a, b, c]: three numeric fields and the separator between   *)
(* them, so "01/02/2023" is [sep |-> "/", a |-> 1, b |-> 2, c |-> 2023]    *)
(* and "2023-01-02" is [sep |-> "-", a |-> 2023, b |-> 1, c |-> 2].        *)
(***************************************************************************)
EXTENDS Integers, Sequences, FiniteSets, TLC

VARIABLES variant, file, cache, parses, pc, load_status, data,
          date_range, selected_country, selected_product,
          price_range, quantity_range, filtered_data,
          total_sales, total_transactions, total_quantity,
          top_products, csv_data, rendered

vars == <<variant, file, cache, parses, pc, load_status, data,
          date_range, selected_country, selected_product,
          price_range, quantity_range, filtered_data,
          total_sales, total_transactions, total_quantity,
          top_products, csv_data, rendered>>

(***************************************************************************)
(* Bounds                                                                  *)
(***************************************************************************)
MaxRows == 2
NumWide == 11
MaxParses == 2

(***************************************************************************)
(* Program constants                                                       *)
(***************************************************************************)
TopN == 10

required_columns == {"Date", "Price", "Quantity", "Country", "ProductName"}

(***************************************************************************)
(* Helpers                                                                 *)
(***************************************************************************)
Min2(a, b) == IF a <= b THEN a ELSE b

SetMin(S) == CHOOSE x \in S : \A y \in S : x <= y

SetMax(S) == CHOOSE x \in S : \A y \in S : y <= x

Range(s) == {s[i] : i \in 1..Len(s)}

\* Product names in lexicographic order; groupby sorts its keys this way.
Catalog == <<"Gadget", "Item01", "Item02", "Item03", "Item04", "Item05",
             "Item06", "Item07", "Item08", "Item09", "Item10", "Item11",
             "Item12", "Item13", "Widget">>

Rank(name) == CHOOSE i \in 1..Len(Catalog) : Catalog[i] = name

(***************************************************************************)
(* Dates: text of a CSV cell, parsing and formatting                       *)
(***************************************************************************)
DateText(m, d, y) == [sep |-> "/", a |-> m, b |-> d, c |-> y]

IsLeap(y) == (y % 4 = 0 /\ y % 100 # 0) \/ y % 400 = 0

DaysInMonth(m, y) ==
    IF m = 2 THEN (IF IsLeap(y) THEN 29 ELSE 28)
    ELSE IF m \in {4, 6, 9, 11} THEN 30 ELSE 31

\* pd.to_datetime(text, format='%m/%d/%Y') accepts the text
Parseable(t) ==
    /\ t.sep = "/"
    /\ t.a \in 1..12
    /\ t.c \in 1..9999
    /\ t.b \in 1..DaysInMonth(t.a, t.c)

\* pd.to_datetime(text, format='%m/%d/%Y') on a text it accepts
to_datetime(t) == t.c * 10000 + t.a * 100 + t.b

\* DataFrame.to_csv writes a midnight Timestamp as YYYY-MM-DD
FormatTimestamp(ts) ==
    [sep |-> "-", a |-> ts \div 10000, b |-> (ts \div 100) % 100, c |-> ts % 100]

(***************************************************************************)
(* Source files                                                            *)
(***************************************************************************)
\* One line of the CSV; missing is the set of columns whose cell is empty.
RawRow(d, p, q, c, n, miss) ==
    [Date |-> d, Price |-> p, Quantity |-> q, Country |-> c,
     ProductName |-> n, missing |-> miss]

CleanRows ==
    { RawRow(DateText(1, 1, 2023), 10, 2, "US", "Widget", {}),
      RawRow(DateText(2, 1, 2023),  5, 4, "UK", "Gadget", {}),
      RawRow(DateText(1, 1, 2023),  5, 2, "UK", "Widget", {}),
      RawRow(DateText(2, 1, 2023), 10, 4, "US", "Gadget", {}),
      RawRow(DateText(1, 1, 2023),  5, 4, "US", "Gadget", {}),
      RawRow(DateText(2, 1, 2023), 10, 2, "UK", "Widget", {}) }

\* A date cell that is not month/day/year: 13/01/2023
BadDateRow == RawRow(DateText(13, 1, 2023), 10, 2, "US", "Widget", {})

\* A line with an empty Price cell
MissingValueRow == RawRow(DateText(1, 1, 2023), 10, 2, "US", "Widget", {"Price"})

Rows == CleanRows \cup {BadDateRow, MissingValueRow}

ExampleRows ==
    << RawRow(DateText(1, 1, 2023), 10, 2, "US", "Widget", {}),
       RawRow(DateText(2, 1, 2023),  5, 4, "UK", "Gadget", {}) >>

\* NumWide products, one line each; Sales 10, 30, 20, 50, 30, 70, 40, 90, 50, ...
WideRows ==
    [i \in 1..NumWide |->
        RawRow(DateText(1, 1, 2023), (IF i % 2 = 1 THEN 5 ELSE 10), i + 1, "US",
               Catalog[i + 1], {})]

SeqsUpTo(S, n) == UNION {[1..k -> S] : k \in 0..n}

MkFile(cols, rows) == [exists |-> TRUE, cols |-> cols, rows |-> rows]

NoFile == [exists |-> FALSE, cols |-> {}, rows |-> <<>>]

FullFiles == {MkFile(required_columns, rs) : rs \in SeqsUpTo(Rows, MaxRows)}

ColumnFiles ==
    {MkFile(required_columns \ {c}, rs) :
        c \in required_columns, rs \in {ExampleRows, <<BadDateRow>>}}

Files == {NoFile} \cup FullFiles \cup ColumnFiles
            \cup {MkFile(required_columns, WideRows)}

(***************************************************************************)
(* load_data                                                               *)
(***************************************************************************)
NoFrame == [cols |-> {}, rows |-> <<>>]

\* DataFrame.dropna(): a line with any empty cell is removed
dropna(frame) ==
    [cols |-> frame.cols,
     rows |-> SelectSeq(frame.rows, LAMBDA r : r.missing \cap frame.cols = {})]

\* Convert with Sales = Price + Quantity
Convert_add(frame) ==
    [cols |-> frame.cols \cup {"Sales"},
     rows |-> [i \in 1..Len(frame.rows) |->
                 [Date |-> to_datetime(frame.rows[i].Date),
                  Price |-> frame.rows[i].Price,
                  Quantity |-> frame.rows[i].Quantity,
                  Country |-> frame.rows[i].Country,
                  ProductName |-> frame.rows[i].ProductName,
                  Sales |-> frame.rows[i].Price + frame.rows[i].Quantity]]]

\* data['Date'] = pd.to_datetime(...); data['Sales'] = data['Price'] * data['Quantity']
Convert(frame) ==
    [cols |-> frame.cols \cup {"Sales"},
     rows |-> [i \in 1..Len(frame.rows) |->
                 [Date |-> to_datetime(frame.rows[i].Date),
                  Price |-> frame.rows[i].Price,
                  Quantity |-> frame.rows[i].Quantity,
                  Country |-> frame.rows[i].Country,
                  ProductName |-> frame.rows[i].ProductName,
                  Sales |-> frame.rows[i].Price * frame.rows[i].Quantity]]]

Failed(status) == [status |-> status, data |-> NoFrame]

\* ConvertColumns with errors='coerce' and a second dropna: lines whose date
\* cannot be parsed are dropped
ConvertColumns_coerce(frame) ==
    IF "Date" \notin frame.cols THEN Failed("KeyError")
    ELSE IF "Price" \notin frame.cols \/ "Quantity" \notin frame.cols
        THEN Failed("KeyError")
    ELSE [status |-> "ok",
          data |-> Convert([cols |-> frame.cols,
                            rows |-> SelectSeq(frame.rows,
                                        LAMBDA r : Parseable(r.Date))])]

\* The statements of load_data after the column check, shared by both scripts
ConvertColumns(frame) ==
    IF "Date" \notin frame.cols THEN Failed("KeyError")
    ELSE IF \E i \in 1..Len(frame.rows) : ~Parseable(frame.rows[i].Date)
        THEN Failed("ValueError")
    ELSE IF "Price" \notin frame.cols \/ "Quantity" \notin frame.cols
        THEN Failed("KeyError")
    ELSE [status |-> "ok", data |-> Convert(frame)]

load_data_app(f) ==
    IF ~f.exists THEN Failed("FileNotFoundError")
    ELSE ConvertColumns(dropna([cols |-> f.cols, rows |-> f.rows]))

load_data_updated(f) ==
    IF ~f.exists THEN Failed("FileNotFoundError")
    ELSE LET frame == dropna([cols |-> f.cols, rows |-> f.rows])
         IN  IF ~(required_columns \subseteq frame.cols) THEN Failed("stop")
             ELSE ConvertColumns(frame)

load_data(v, f) == IF v = "app" THEN load_data_app(f) ELSE load_data_updated(f)

(***************************************************************************)
(* st.cache_data around load_data: one entry, keyed by the file path       *)
(***************************************************************************)
NoCache == [hit |-> FALSE, value |-> NoFrame]

\* load_data without the st.cache_data decorator
uncached_load_data(c, v, f) ==
    [status |-> load_data(v, f).status, data |-> load_data(v, f).data,
     ran |-> TRUE]

\* The cached call: a hit returns the stored frame without running load_data
cached_load_data(c, v, f) ==
    IF c.hit THEN [status |-> "ok", data |-> c.value, ran |-> FALSE]
    ELSE [status |-> load_data(v, f).status, data |-> load_data(v, f).data,
          ran |-> TRUE]

(***************************************************************************)
(* pandas helpers                                                          *)
(***************************************************************************)
RECURSIVE BoolIndex(_, _)
\* df[mask]: the rows whose mask entry is TRUE, in order
BoolIndex(rows, mask) ==
    IF rows = <<>> THEN <<>>
    ELSE (IF Head(mask) THEN <<Head(rows)>> ELSE <<>>)
            \o BoolIndex(Tail(rows), Tail(mask))

RECURSIVE ColumnSum(_, _)
\* df[col].sum(); 0 for no rows
ColumnSum(rows, col) ==
    IF rows = <<>> THEN 0 ELSE Head(rows)[col] + ColumnSum(Tail(rows), col)

\* set(df[col].unique())
Unique(rows, col) == {rows[i][col] : i \in 1..Len(rows)}

(***************************************************************************)
(* Filters                                                                 *)
(***************************************************************************)
\* date_filter with the end of the range excluded
date_filter_exclusive(rows, dr) ==
    IF Len(dr) = 2
    THEN BoolIndex(rows, [i \in 1..Len(rows) |->
                            rows[i].Date >= dr[1] /\ rows[i].Date < dr[2]])
    ELSE rows

\* app.py 31-34, app_updated.py 46-49: both ends included
date_filter(rows, dr) ==
    IF Len(dr) = 2
    THEN BoolIndex(rows, [i \in 1..Len(rows) |->
                            rows[i].Date >= dr[1] /\ rows[i].Date <= dr[2]])
    ELSE rows

\* isin_filter with | in place of &
isin_filter_or(rows, countries, products) ==
    BoolIndex(rows, [i \in 1..Len(rows) |->
                        rows[i].Country \in countries
                        \/ rows[i].ProductName \in products])

\* isin_filter where an empty selection is taken as no restriction
isin_filter_empty_all(rows, countries, products) ==
    BoolIndex(rows, [i \in 1..Len(rows) |->
                        (countries = {} \/ rows[i].Country \in countries)
                        /\ (products = {} \/ rows[i].ProductName \in products)])

\* app.py 38
isin_filter(rows, countries, products) ==
    BoolIndex(rows, [i \in 1..Len(rows) |->
                        rows[i].Country \in countries
                        /\ rows[i].ProductName \in products])

\* app_updated.py 57-58, 64-65
selectbox_filter(rows, col, choice) ==
    IF choice # "All"
    THEN BoolIndex(rows, [i \in 1..Len(rows) |-> rows[i][col] = choice])
    ELSE rows

\* range_filter with both bounds excluded
range_filter_exclusive(rows, col, rg) ==
    BoolIndex(rows, [i \in 1..Len(rows) |->
                        rows[i][col] > rg[1] /\ rows[i][col] < rg[2]])

\* app_updated.py 74-76, 83-85
range_filter(rows, col, rg) ==
    BoolIndex(rows, [i \in 1..Len(rows) |->
                        rows[i][col] >= rg[1] /\ rows[i][col] <= rg[2]])

\* The whole filter chain of app.py
filtered_data_app(rows, dr, countries, products) ==
    isin_filter(date_filter(rows, dr), countries, products)

\* The whole filter chain of app_updated.py
filtered_data_updated(rows, dr, country, product, prg, qrg) ==
    range_filter(
        range_filter(
            selectbox_filter(
                selectbox_filter(date_filter(rows, dr), "Country", country),
                "ProductName", product),
            "Price", prg),
        "Quantity", qrg)

(***************************************************************************)
(* Widget inputs                                                           *)
(***************************************************************************)
\* st.date_input in range mode: one endpoint picked, or both
DateRangeChoices(rows) ==
    LET D == Unique(rows, "Date")
    IN  {<<s>> : s \in D} \cup {p \in D \X D : p[1] <= p[2]}

\* st.multiselect: the full default, nothing, or a single option
MultiselectChoices(options) ==
    {options, {}} \cup {{o} : o \in options}

\* st.selectbox with "All" first
SelectboxChoices(options) == {"All"} \cup options

\* st.slider over [lo, hi]: the full default range or one collapsed to an end
SliderChoices(lo, hi) == {<<lo, hi>>, <<lo, lo>>, <<hi, hi>>}

(***************************************************************************)
(* Aggregation                                                             *)
(***************************************************************************)
RECURSIVE SortedKeys(_)
\* group keys in sorted order, as groupby(sort=True) yields them
SortedKeys(names) ==
    IF names = {} THEN <<>>
    ELSE LET first == CHOOSE n \in names : \A m \in names : Rank(n) <= Rank(m)
         IN  <<first>> \o SortedKeys(names \ {first})

\* filtered_data.groupby('ProductName')['Sales'].sum()
groupby_sum(rows) ==
    LET keys == SortedKeys(Unique(rows, "ProductName"))
    IN  [k \in 1..Len(keys) |->
            [ProductName |-> keys[k],
             Sales |-> ColumnSum(SelectSeq(rows,
                          LAMBDA r : r.ProductName = keys[k]), "Sales")]]

RECURSIVE sort_values_asc(_)
\* sort_values without ascending=False
sort_values_asc(groups) ==
    IF groups = {} THEN {<<>>}
    ELSE LET low == {g \in groups : \A h \in groups : g.Sales <= h.Sales}
         IN  UNION {{<<g>> \o rest : rest \in sort_values_asc(groups \ {g})} :
                        g \in low}

RECURSIVE sort_values_desc(_)
\* .sort_values(ascending=False) with the default, non-stable, quicksort:
\* every arrangement with non-increasing Sales is a possible result
sort_values_desc(groups) ==
    IF groups = {} THEN {<<>>}
    ELSE LET top == {g \in groups : \A h \in groups : h.Sales <= g.Sales}
         IN  UNION {{<<g>> \o rest : rest \in sort_values_desc(groups \ {g})} :
                        g \in top}

\* .head(n)
head(s, n) == SubSeq(s, 1, Min2(n, Len(s)))

\* the possible values of top_products for a view
top_products_of(rows) ==
    {head(s, TopN) : s \in sort_values_desc(Range(groupby_sum(rows)))}

(***************************************************************************)
(* Export                                                                  *)
(***************************************************************************)
\* df.to_csv(index=False): header and one line per row, Date as YYYY-MM-DD
convert_to_csv(cols, rows) ==
    [exists |-> TRUE,
     cols |-> cols,
     rows |-> [i \in 1..Len(rows) |->
                 [Date |-> FormatTimestamp(rows[i].Date),
                  Price |-> rows[i].Price,
                  Quantity |-> rows[i].Quantity,
                  Country |-> rows[i].Country,
                  ProductName |-> rows[i].ProductName,
                  Sales |-> rows[i].Sales,
                  missing |-> {}]]]

NoCsv == [exists |-> FALSE, cols |-> {}, rows |-> <<>>]

(***************************************************************************)
(* State machine of a session                                              *)
(***************************************************************************)
\* value of a category widget that has not been reached in this run
Unselected(v) == IF v = "app" THEN {} ELSE "All"

Halted == {"done", "stopped", "exception"}

InitRun ==
    /\ cache = NoCache
    /\ parses = 0
    /\ pc = "load"
    /\ load_status = "none"
    /\ data = NoFrame
    /\ date_range = <<>>
    /\ selected_country = Unselected(variant)
    /\ selected_product = Unselected(variant)
    /\ price_range = <<>>
    /\ quantity_range = <<>>
    /\ filtered_data = <<>>
    /\ total_sales = 0
    /\ total_transactions = 0
    /\ total_quantity = 0
    /\ top_products = <<>>
    /\ csv_data = NoCsv
    /\ rendered = <<>>

Init ==
    /\ variant \in {"app", "updated"}
    /\ file \in Files
    /\ InitRun

\* app.py 17-23, app_updated.py 24-30 (with the st.error/st.stop of 16-18)
LoadData ==
    /\ pc = "load"
    /\ LET r == cached_load_data(cache, variant, file)
       IN  /\ parses' = IF r.ran /\ parses < MaxParses THEN parses + 1 ELSE parses
           /\ cache' = IF r.ran /\ r.status = "ok"
                       THEN [hit |-> TRUE, value |-> r.data] ELSE cache
           /\ load_status' = r.status
           /\ data' = r.data
           /\ pc' = IF r.status = "ok" THEN "header"
                    ELSE IF r.status \in {"FileNotFoundError", "stop"} THEN "stopped"
                    ELSE "exception"
           /\ rendered' = IF r.status = "ok" THEN rendered
                          ELSE IF r.status \in {"FileNotFoundError", "stop"}
                               THEN Append(rendered, "error")
                          ELSE Append(rendered, "exception")
    /\ UNCHANGED <<variant, file, date_range, selected_country, selected_product,
                   price_range, quantity_range, filtered_data, total_sales,
                   total_transactions, total_quantity, top_products, csv_data>>

\* app.py 26, app_updated.py 33-38
Header ==
    /\ pc = "header"
    /\ rendered' = Append(rendered, "header")
    /\ pc' = "date"
    /\ UNCHANGED <<variant, file, cache, parses, load_status, data, date_range,
                   selected_country, selected_product, price_range, quantity_range,
                   filtered_data, total_sales, total_transactions, total_quantity,
                   top_products, csv_data>>

\* app.py 29-34, app_updated.py 41-49.  With no rows data['Date'].min() is
\* NaT, which st.date_input cannot turn into a date: the run ends there.
DateFilter ==
    /\ pc = "date"
    /\ \/ /\ data.rows = <<>>
          /\ rendered' = rendered \o <<"filters_title", "exception">>
          /\ pc' = "exception"
          /\ UNCHANGED <<date_range, filtered_data>>
       \/ /\ data.rows # <<>>
          /\ \E dr \in DateRangeChoices(data.rows) :
                /\ date_range' = dr
                /\ filtered_data' = date_filter(data.rows, dr)
          /\ rendered' = rendered \o <<"filters_title", "date_input">>
          /\ pc' = "category"
    /\ UNCHANGED <<variant, file, cache, parses, load_status, data,
                   selected_country, selected_product, price_range, quantity_range,
                   total_sales, total_transactions, total_quantity,
                   top_products, csv_data>>

\* app.py 36-38
CategoryFiltersApp ==
    /\ pc = "category"
    /\ variant = "app"
    /\ \/ /\ "Country" \notin data.cols
          /\ rendered' = Append(rendered, "exception")
          /\ pc' = "exception"
          /\ UNCHANGED <<selected_country, selected_product, filtered_data>>
       \/ /\ "Country" \in data.cols
          /\ "ProductName" \notin data.cols
          /\ rendered' = rendered \o <<"country_select", "exception">>
          /\ pc' = "exception"
          /\ UNCHANGED <<selected_country, selected_product, filtered_data>>
       \/ /\ {"Country", "ProductName"} \subseteq data.cols
          /\ \E sc \in MultiselectChoices(Unique(data.rows, "Country")),
                sp \in MultiselectChoices(Unique(data.rows, "ProductName")) :
                /\ selected_country' = sc
                /\ selected_product' = sp
                /\ filtered_data' = isin_filter(filtered_data, sc, sp)
          /\ rendered' = rendered \o <<"country_select", "product_select">>
          /\ pc' = "metrics"
    /\ UNCHANGED <<variant, file, cache, parses, load_status, data, date_range,
                   price_range, quantity_range, total_sales, total_transactions,
                   total_quantity, top_products, csv_data>>

\* app_updated.py 52-65
CategoryFiltersUpdated ==
    /\ pc = "category"
    /\ variant = "updated"
    /\ \E sc \in SelectboxChoices(Unique(data.rows, "Country")),
          sp \in SelectboxChoices(Unique(data.rows, "ProductName")) :
          /\ selected_country' = sc
          /\ selected_product' = sp
          /\ filtered_data' =
                selectbox_filter(selectbox_filter(filtered_data, "Country", sc),
                                 "ProductName", sp)
    /\ rendered' = rendered \o <<"country_select", "product_select">>
    /\ pc' = "advanced"
    /\ UNCHANGED <<variant, file, cache, parses, load_status, data, date_range,
                   price_range, quantity_range, total_sales, total_transactions,
                   total_quantity, top_products, csv_data>>

\* st.slider(label, lo, hi, (lo, hi)): the ranges the widget can return; with
\* lo = hi the widget either rejects its bounds or returns the one range
SliderOutcomes(lo, hi) ==
    IF lo < hi THEN {[ok |-> TRUE, range |-> r] : r \in SliderChoices(lo, hi)}
    ELSE {[ok |-> FALSE, range |-> <<>>], [ok |-> TRUE, range |-> <<lo, hi>>]}

\* app_updated.py 68-85
AdvancedFilters ==
    /\ pc = "advanced"
    /\ variant = "updated"
    /\ \E p \in SliderOutcomes(SetMin(Unique(data.rows, "Price")),
                               SetMax(Unique(data.rows, "Price"))),
          q \in SliderOutcomes(SetMin(Unique(data.rows, "Quantity")),
                               SetMax(Unique(data.rows, "Quantity"))) :
          \/ /\ ~p.ok
             /\ rendered' = Append(rendered, "exception")
             /\ pc' = "exception"
             /\ UNCHANGED <<price_range, quantity_range, filtered_data>>
          \/ /\ p.ok
             /\ ~q.ok
             /\ price_range' = p.range
             /\ filtered_data' = range_filter(filtered_data, "Price", p.range)
             /\ rendered' = rendered \o <<"price_slider", "exception">>
             /\ pc' = "exception"
             /\ UNCHANGED quantity_range
          \/ /\ p.ok
             /\ q.ok
             /\ price_range' = p.range
             /\ quantity_range' = q.range
             /\ filtered_data' =
                    range_filter(range_filter(filtered_data, "Price", p.range),
                                 "Quantity", q.range)
             /\ rendered' = rendered \o <<"price_slider", "quantity_slider">>
             /\ pc' = "metrics"
    /\ UNCHANGED <<variant, file, cache, parses, load_status, data, date_range,
                   selected_country, selected_product, total_sales,
                   total_transactions, total_quantity, top_products, csv_data>>

\* app.py 40-48, app_updated.py 88-100
SummaryMetrics ==
    /\ pc = "metrics"
    /\ total_sales' = ColumnSum(filtered_data, "Sales")
    /\ total_transactions' = Len(filtered_data)
    /\ total_quantity' = ColumnSum(filtered_data, "Quantity")
    /\ rendered' = rendered \o <<"metric_total_sales", "metric_total_transactions",
                                 "metric_total_quantity", "line_chart">>
    /\ pc' = "charts"
    /\ UNCHANGED <<variant, file, cache, parses, load_status, data, date_range,
                   selected_country, selected_product, price_range, quantity_range,
                   filtered_data, top_products, csv_data>>

\* app.py 50-75, app_updated.py 103-126
Charts ==
    /\ pc = "charts"
    /\ top_products' \in top_products_of(filtered_data)
    /\ rendered' = rendered \o <<"top_products_chart", "country_chart",
                                 "heatmap", "scatter">>
    /\ pc' = "download"
    /\ UNCHANGED <<variant, file, cache, parses, load_status, data, date_range,
                   selected_country, selected_product, price_range, quantity_range,
                   filtered_data, total_sales, total_transactions, total_quantity,
                   csv_data>>

\* app.py 77-90, app_updated.py 129-146
Download ==
    /\ pc = "download"
    /\ csv_data' = convert_to_csv(data.cols, filtered_data)
    /\ rendered' = IF variant = "app"
                   THEN rendered \o <<"calculator", "download_button">>
                   ELSE rendered \o <<"download_button", "dataframe", "calculator">>
    /\ pc' = "done"
    /\ UNCHANGED <<variant, file, cache, parses, load_status, data, date_range,
                   selected_country, selected_product, price_range, quantity_range,
                   filtered_data, total_sales, total_transactions, total_quantity,
                   top_products>>

\* A widget interaction after the run has ended: the script runs again from
\* the top; only the st.cache_data entry is carried over
Rerun ==
    /\ pc \in Halted
    /\ pc' = "load"
    /\ load_status' = "none"
    /\ data' = NoFrame
    /\ date_range' = <<>>
    /\ selected_country' = Unselected(variant)
    /\ selected_product' = Unselected(variant)
    /\ price_range' = <<>>
    /\ quantity_range' = <<>>
    /\ filtered_data' = <<>>
    /\ total_sales' = 0
    /\ total_transactions' = 0
    /\ total_quantity' = 0
    /\ top_products' = <<>>
    /\ csv_data' = NoCsv
    /\ rendered' = <<>>
    /\ UNCHANGED <<variant, file, cache, parses>>

Next ==
    \/ LoadData
    \/ Header
    \/ DateFilter
    \/ CategoryFiltersApp
    \/ CategoryFiltersUpdated
    \/ AdvancedFilters
    \/ SummaryMetrics
    \/ Charts
    \/ Download
    \/ Rerun

Spec == Init /\ [][Next]_vars

(***************************************************************************)
(* The session with the source file changing between runs                  *)
(***************************************************************************)
CacheFiles ==
    {NoFile,
     MkFile(required_columns, ExampleRows),
     MkFile(required_columns, <<ExampleRows[2]>>),
     MkFile(required_columns, <<BadDateRow>>),
     MkFile(required_columns \ {"Price"}, ExampleRows)}

InitCache ==
    /\ variant \in {"app", "updated"}
    /\ file \in CacheFiles
    /\ InitRun

\* The file at the path is replaced, or removed, while no run is in progress
FileChange ==
    /\ pc \in Halted
    /\ file' \in CacheFiles \ {file}
    /\ UNCHANGED <<variant, cache, parses, pc, load_status, data, date_range,
                   selected_country, selected_product, price_range, quantity_range,
                   filtered_data, total_sales, total_transactions, total_quantity,
                   top_products, csv_data, rendered>>

NextCache ==
    \/ Next
    \/ FileChange

SpecCache == InitCache /\ [][NextCache]_vars

(***************************************************************************)
(* Properties                                                              *)
(***************************************************************************)
\* the filter chain of the run is complete
AfterFilters == {"metrics", "charts", "download", "done"}

\* the metrics of the run have been computed
AfterMetrics == {"charts", "download", "done"}

\* the top-products table of the run has been computed
AfterCharts == {"download", "done"}

InDateRange(r) == date_range[1] <= r.Date /\ r.Date <= date_range[2]

PassesDate(r) == Len(date_range) = 2 => InDateRange(r)

PassesCategories(r) ==
    IF variant = "app"
    THEN r.Country \in selected_country /\ r.ProductName \in selected_product
    ELSE /\ selected_country # "All" => r.Country = selected_country
         /\ selected_product # "All" => r.ProductName = selected_product

PassesRanges(r) ==
    variant = "updated" =>
        /\ price_range[1] <= r.Price /\ r.Price <= price_range[2]
        /\ quantity_range[1] <= r.Quantity /\ r.Quantity <= quantity_range[2]

PassesAll(r) == PassesDate(r) /\ PassesCategories(r) /\ PassesRanges(r)

\* C1: once the filters of a run have been applied, the filtered view is
\* exactly the records of the dataset that satisfy every active criterion
\* (date interval, country, product, and in app_updated.py price and
\* quantity interval), in the order they have in the dataset.
C1_FilteredViewExact ==
    pc \in AfterFilters => filtered_data = SelectSeq(data.rows, PassesAll)

\* C1 witness: a view that keeps some records and drops others
C1_Witness ==
    /\ pc \in AfterFilters
    /\ Len(data.rows) > 1
    /\ Len(filtered_data) = 1
    /\ filtered_data[1] = data.rows[2]

\* C2 as stated: in app.py an empty country (or product) selection gives the
\* same view as selecting every country (or every product).
C2_EmptyMeansAll ==
    (variant = "app" /\ pc \in AfterFilters) =>
        /\ selected_country = {} =>
              filtered_data = filtered_data_app(data.rows, date_range,
                                  Unique(data.rows, "Country"), selected_product)
        /\ selected_product = {} =>
              filtered_data = filtered_data_app(data.rows, date_range,
                                  selected_country, Unique(data.rows, "ProductName"))

\* C2 amended: in app.py an empty country (or product) selection lets no
\* record pass, so the filtered view is empty; with every country (every
\* product) selected, as by default, every record passes that criterion.
C2_EmptySelectsNothing ==
    (variant = "app" /\ pc \in AfterFilters) =>
        /\ (selected_country = {} \/ selected_product = {}) => filtered_data = <<>>
        /\ selected_country = Unique(data.rows, "Country") =>
              filtered_data = SelectSeq(data.rows,
                  LAMBDA r : PassesDate(r) /\ r.ProductName \in selected_product)
        /\ selected_product = Unique(data.rows, "ProductName") =>
              filtered_data = SelectSeq(data.rows,
                  LAMBDA r : PassesDate(r) /\ r.Country \in selected_country)

\* C2 witness: no country selected although records pass the other criteria
C2_Witness ==
    /\ variant = "app"
    /\ pc \in AfterFilters
    /\ selected_country = {}
    /\ selected_product = Unique(data.rows, "ProductName")
    /\ date_filter(data.rows, date_range) # <<>>
    /\ filtered_data = <<>>

\* C3: when the download has been prepared, loading the exported CSV with
\* load_data succeeds and gives as many records and the same sum of Sales
\* as the filtered view.
C3_RoundTrip ==
    pc = "done" =>
        LET again == load_data(variant, csv_data)
        IN  /\ again.status = "ok"
            /\ Len(again.data.rows) = Len(filtered_data)
            /\ ColumnSum(again.data.rows, "Sales") = ColumnSum(filtered_data, "Sales")

FatalLoadError(f) == ~f.exists \/ ~(required_columns \subseteq f.cols)

DashboardElements(elems) == {e \in Range(elems) : e \notin {"error", "exception"}}

\* C4: when the source file is missing or lacks a required column, the run
\* never renders a dashboard element and does not run to completion.
C4_NoPartialDashboard ==
    FatalLoadError(file) => DashboardElements(rendered) = {} /\ pc # "done"

\* the file has a Date column and a line, kept by dropna, whose date is not
\* month/day/year
HasBadDate(f) ==
    /\ f.exists
    /\ "Date" \in f.cols
    /\ \E i \in 1..Len(f.rows) :
          /\ f.rows[i].missing \cap f.cols = {}
          /\ ~Parseable(f.rows[i].Date)

GoodLines(f) ==
    SelectSeq(f.rows, LAMBDA r : r.missing \cap f.cols = {} /\ Parseable(r.Date))

\* C5 as stated: a line whose Date cannot be parsed is dropped and load_data
\* returns the dataset of the remaining lines.
C5_BadDateDropped ==
    (HasBadDate(file) /\ required_columns \subseteq file.cols
        /\ load_status # "none") =>
        /\ load_status = "ok"
        /\ Len(data.rows) = Len(GoodLines(file))

\* C5 amended: when the file has the required columns and a line kept by
\* dropna has a Date that cannot be parsed, load_data raises ValueError: no
\* dataset is returned or cached and the run ends with the exception.
C5_BadDateFailsLoad ==
    (HasBadDate(file) /\ required_columns \subseteq file.cols
        /\ load_status # "none") =>
        /\ load_status = "ValueError"
        /\ data = NoFrame
        /\ ~cache.hit
        /\ pc = "exception"
        /\ DashboardElements(rendered) = {}

\* C5 witness: a failed load of a file that also has a good line
C5_Witness ==
    /\ HasBadDate(file)
    /\ required_columns \subseteq file.cols
    /\ GoodLines(file) # <<>>
    /\ load_status = "ValueError"

\* per-product sum of Sales over the view
ProductSales(name) ==
    ColumnSum(SelectSeq(filtered_data, LAMBDA r : r.ProductName = name), "Sales")

\* position of the first record of the product in the view
FirstSeen(name) ==
    CHOOSE i \in 1..Len(filtered_data) :
        /\ filtered_data[i].ProductName = name
        /\ \A j \in 1..(i - 1) : filtered_data[j].ProductName # name

TopProductsSums ==
    /\ Len(top_products) =
          Min2(TopN, Cardinality(Unique(filtered_data, "ProductName")))
    /\ \A i \in 1..Len(top_products) :
          /\ top_products[i].ProductName \in Unique(filtered_data, "ProductName")
          /\ top_products[i].Sales = ProductSales(top_products[i].ProductName)
    /\ \A i, j \in 1..Len(top_products) :
          i < j => /\ top_products[i].ProductName # top_products[j].ProductName
                   /\ top_products[i].Sales >= top_products[j].Sales
    /\ \A name \in Unique(filtered_data, "ProductName") :
          \/ \E i \in 1..Len(top_products) : top_products[i].ProductName = name
          \/ \A i \in 1..Len(top_products) : top_products[i].Sales >= ProductSales(name)

\* C6 as stated: the top-products table has min(10, distinct products)
\* entries, the per-product sums in descending order, and products with
\* equal sums in the order they are first seen in the view.
C6_TopProductsFirstSeen ==
    pc \in AfterCharts =>
        /\ TopProductsSums
        /\ \A i, j \in 1..Len(top_products) :
              (i < j /\ top_products[i].Sales = top_products[j].Sales) =>
                  FirstSeen(top_products[i].ProductName)
                      < FirstSeen(top_products[j].ProductName)

\* C6 amended: the top-products table has min(10, distinct products)
\* entries, each a product of the view with its sum of Sales, in
\* non-increasing order of sum, and no product left out has a larger sum
\* than one that is in; the order of products with equal sums is not fixed.
C6_TopProductsDescending == pc \in AfterCharts => TopProductsSums

\* C6 witness: more than ten products, so the table is cut, with a tie in it
C6_Witness ==
    /\ pc \in AfterCharts
    /\ Cardinality(Unique(filtered_data, "ProductName")) > TopN
    /\ Len(top_products) = TopN
    /\ \E i \in 1..(TopN - 1) : top_products[i].Sales = top_products[i + 1].Sales

RECURSIVE SumPriceTimesQuantity(_)
SumPriceTimesQuantity(rows) ==
    IF rows = <<>> THEN 0
    ELSE Head(rows).Price * Head(rows).Quantity + SumPriceTimesQuantity(Tail(rows))

IsExample == file = MkFile(required_columns, ExampleRows)

\* every criterion but the country one is at its default
OnlyCountryFilter ==
    /\ date_range = <<SetMin(Unique(data.rows, "Date")), SetMax(Unique(data.rows, "Date"))>>
    /\ IF variant = "app"
       THEN selected_product = Unique(data.rows, "ProductName")
       ELSE /\ selected_product = "All"
            /\ price_range = <<SetMin(Unique(data.rows, "Price")),
                               SetMax(Unique(data.rows, "Price"))>>
            /\ quantity_range = <<SetMin(Unique(data.rows, "Quantity")),
                                  SetMax(Unique(data.rows, "Quantity"))>>

AllCountries ==
    IF variant = "app" THEN selected_country = Unique(data.rows, "Country")
    ELSE selected_country = "All"

OnlyUS ==
    IF variant = "app" THEN selected_country = {"US"} ELSE selected_country = "US"

\* C7: the Total Sales metric is the sum of Price x Quantity over the view,
\* 0 for the empty view; on the two-record example it is 40 without filters
\* and 20 with Country = US.
C7_TotalSales ==
    pc \in AfterMetrics =>
        /\ total_sales = SumPriceTimesQuantity(filtered_data)
        /\ filtered_data = <<>> => total_sales = 0
        /\ (IsExample /\ OnlyCountryFilter /\ AllCountries) =>
              total_sales = 40 /\ total_transactions = 2 /\ total_quantity = 6
        /\ (IsExample /\ OnlyCountryFilter /\ OnlyUS) =>
              total_sales = 20 /\ total_transactions = 1

\* C7 witness: the example with Country = US
C7_Witness ==
    /\ pc \in AfterMetrics
    /\ IsExample
    /\ OnlyCountryFilter
    /\ OnlyUS
    /\ total_sales = 20

\* C8: after the date step the view holds exactly the records with
\* start <= Date <= end when the widget gave two endpoints, and every record
\* of the dataset when it gave fewer; the run goes on in both cases.
C8_DateInclusive ==
    pc = "category" =>
        /\ Len(date_range) = 2 =>
              /\ \A i \in 1..Len(filtered_data) : InDateRange(filtered_data[i])
              /\ filtered_data = SelectSeq(data.rows, InDateRange)
        /\ Len(date_range) < 2 => filtered_data = data.rows

\* C8 witness: a range of one day keeps the record of that day and drops another
C8_Witness ==
    /\ pc = "category"
    /\ Len(date_range) = 2
    /\ date_range[1] = date_range[2]
    /\ \E i \in 1..Len(filtered_data) : filtered_data[i].Date = date_range[2]
    /\ Len(filtered_data) < Len(data.rows)

\* C9: once load_data has succeeded its result stays cached: no later run
\* executes load_data again, whatever happens to the file, and every run
\* that loads sees the cached dataset.
C9_LoadedOnce ==
    /\ [](load_status = "ok" => (cache.hit /\ data = cache.value))
    /\ [][cache.hit => (cache' = cache /\ parses' = parses)]_vars

\* C9 witness: a run served from the cache although the file no longer loads
C9_Witness ==
    /\ pc = "header"
    /\ load_status = "ok"
    /\ cache.hit
    /\ parses = 1
    /\ load_data(variant, file).status # "ok"

Expressible(sel, all) == sel = all \/ Cardinality(sel) = 1

\* the selectbox choice that stands for a multiselect selection
AsSelectbox(sel, all) == IF sel = all THEN "All" ELSE CHOOSE x \in sel : TRUE

\* the multiselect selection that stands for a selectbox choice
AsMultiselect(choice, all) == IF choice = "All" THEN all ELSE {choice}

FullRange(col) == <<SetMin(Unique(data.rows, col)), SetMax(Unique(data.rows, col))>>

\* the view the other script computes from the same dataset and selection
OtherView ==
    IF variant = "app"
    THEN filtered_data_updated(data.rows, date_range,
             AsSelectbox(selected_country, Unique(data.rows, "Country")),
             AsSelectbox(selected_product, Unique(data.rows, "ProductName")),
             FullRange("Price"), FullRange("Quantity"))
    ELSE filtered_data_app(data.rows, date_range,
             AsMultiselect(selected_country, Unique(data.rows, "Country")),
             AsMultiselect(selected_product, Unique(data.rows, "ProductName")))

InBoth ==
    IF variant = "app"
    THEN /\ Expressible(selected_country, Unique(data.rows, "Country"))
         /\ Expressible(selected_product, Unique(data.rows, "ProductName"))
    ELSE /\ price_range = FullRange("Price")
         /\ quantity_range = FullRange("Quantity")

====
